---------------------------- MODULE Spec2Model ----------------------------
(***************************************************************************)
(* The processing workflow of the RAG financial assistant front end:       *)
(*   - the zustand store useAppStore (workflow phase, processing status,   *)
(*     chat state, processed companies),                                   *)
(*   - the useProcessingStatus hook (status polling, cancel) as mounted by *)
(*     ProcessingStatusPanel inside App,                                   *)
(*   - the HTTP requests in flight (start, status, cancel),                *)
(*   - the ingestion service behind the API, as the design describes it,   *)
(*   - the query engine of the design, FinancialRAGEngine, with the        *)
(*     process_query calls in progress on one engine instance, and         *)
(*   - the ingestion pipeline of the design, process_company.              *)
(*                                                                         *)
(* A request reaches the service when it is sent; its response arrives     *)
(* after any delay, in any order, or the request fails.                    *)
(*                                                                         *)
(* A nullable value is a sequence of length 0 (null) or 1 (the value).     *)
(* Dates, message ids and display strings that no guard reads are left     *)
(* out.                                                                    *)
(***************************************************************************)
EXTENDS Integers, Sequences, FiniteSets, Bags, TLC

VARIABLES
    store,        \* the state object of useAppStore
    isPolling,    \* isPollingRef.current / intervalRef.current # null of the mounted hook
    startReqs,    \* POST /companies/process requests whose promise is not settled
    polls,        \* GET /companies/{ticker}/status requests whose promise is not settled
    cancelReqs,   \* POST /companies/{ticker}/cancel requests whose promise is not settled
    requestCount, \* number of start requests sent so far
    pollCount,    \* number of status requests sent so far
    serverJobs,   \* the service's job per ticker
    vectorIndex,  \* the entries of the shared vector store
    dbStatus,     \* db_manager's processing status per ticker
    chainRetriever, \* qa_chain.retriever of the engine instance
    queries,      \* the process_query calls made on the engine instance
    pipeline,     \* the process_company run of the ingestion pipeline
    search,       \* useCompanySearch: the debounced query and the searches issued
    form          \* the state of CompanyInputForm

clientVars ==
    <<store, isPolling, startReqs, polls, cancelReqs, requestCount, pollCount, serverJobs>>

engineVars == <<vectorIndex, dbStatus, chainRetriever, queries>>

serviceVars == <<engineVars, pipeline>>

formVars == <<search, form>>

vars == <<clientVars, serviceVars, formVars>>

-----------------------------------------------------------------------------
(* Bounds of the model *)

MaxStarts == 2     \* start requests sent in one behaviour
MaxPolls == 2      \* status requests in flight at once
MaxStatusRequests == 4 \* status requests sent in one behaviour
MaxCancels == 1    \* cancel requests in flight at once
MaxDocs == 1       \* filings the service finds for one job
MaxChunks == 1     \* chunks the service creates for one job
MaxMessages == 2   \* chat messages kept in the store

Tickers == {"AAPL"}
RequestRanges == {5}
Questions == {"What was the revenue last year?"}

-----------------------------------------------------------------------------
(* Nullable values *)

None == <<>>
Some(x) == <<x>>
Val(o) == o[1]

-----------------------------------------------------------------------------
(* Types of the store *)

WorkflowPhases == {"input", "processing", "chat"}
PhaseOrder == <<"scraping", "parsing", "chunking", "vectorizing", "complete">>
NonTerminalPhases == {"scraping", "parsing", "chunking", "vectorizing"}
TerminalPhases == {"complete", "error"}

DefaultTimeRange == 3

StartFailedMessage == "Failed to start processing"
StartFailedDetails == "Check your network connection and try again"
FetchFailedMessage == "Failed to fetch processing status"
CancelledMessage == "Processing cancelled by user"
PlaceholderAnswer ==
    "This is a placeholder response. The chat functionality will be implemented in later tasks."

\* The ProcessingStatus startProcessing puts in the store.
InitialStatus(ticker) ==
    [ticker |-> ticker, phase |-> "scraping",
     documentsFound |-> 0, documentsProcessed |-> 0,
     chunksCreated |-> 0, chunksVectorized |-> 0, error |-> ""]

InitialProgress ==
    [phase |-> "scraping", documentsFound |-> 0, documentsProcessed |-> 0,
     chunksCreated |-> 0, chunksVectorized |-> 0]

InitialStore ==
    [currentPhase |-> "input",
     previousPhase |-> None,
     selectedTicker |-> "",
     selectedTimeRange |-> DefaultTimeRange,
     workflowError |-> None,
     processingStatus |-> None,
     processingProgress |-> None,
     processingJobId |-> None,
     processingEndTime |-> None,
     messages |-> <<>>,
     isTyping |-> FALSE,
     companyContext |-> None,
     chatEnabled |-> FALSE,
     processedCompanies |-> {}]

-----------------------------------------------------------------------------
(* Store actions, as functions from the state object to the state object *)

\* A guard that lets processing start from any phase.
canTransitionToFromAnyPhase(s, phase) ==
    CASE phase = "input" -> TRUE
      [] phase = "processing" -> TRUE
      [] phase = "chat" ->
            /\ s.currentPhase = "processing"
            /\ s.processingStatus # None
            /\ Val(s.processingStatus).phase = "complete"
            /\ s.companyContext # None
      [] OTHER -> FALSE

canTransitionTo(s, phase) ==
    CASE phase = "input" -> TRUE
      [] phase = "processing" -> s.currentPhase = "input"
      [] phase = "chat" ->
            /\ s.currentPhase = "processing"
            /\ s.processingStatus # None
            /\ Val(s.processingStatus).phase = "complete"
            /\ s.companyContext # None
      [] OTHER -> FALSE

\* The synchronous set() of startProcessing, taken once the guard has passed.
startProcessingSet(s, request) ==
    [s EXCEPT !.previousPhase = Some(s.currentPhase),
              !.currentPhase = "processing",
              !.selectedTicker = request.ticker,
              !.selectedTimeRange = request.timeRange,
              !.processingEndTime = None,
              !.processingJobId = None,
              !.workflowError = None,
              !.processingStatus = Some(InitialStatus(request.ticker)),
              !.processingProgress = Some(InitialProgress),
              !.messages = <<>>,
              !.companyContext = None,
              !.chatEnabled = FALSE]

enableChat(s) == [s EXCEPT !.chatEnabled = TRUE]

clearWorkflowError(s) == [s EXCEPT !.workflowError = None]

setWorkflowPhase(s, phase, force) ==
    IF ~force /\ ~canTransitionTo(s, phase)
    THEN s
    ELSE [s EXCEPT !.previousPhase = Some(s.currentPhase),
                   !.currentPhase = phase,
                   !.workflowError = None]

transitionToPhase(s, phase) ==
    IF ~canTransitionTo(s, phase)
    THEN s
    ELSE LET prepared ==
                CASE phase = "input" ->
                        [s EXCEPT !.processingStatus = None,
                                  !.processingProgress = None,
                                  !.companyContext = None,
                                  !.chatEnabled = FALSE]
                  [] phase = "chat" -> enableChat(s)
                  [] OTHER -> s
         IN setWorkflowPhase(prepared, phase, FALSE)

\* A set() that would keep the documentsFound the store already holds.
storedStatusKeepingFound(old, status) ==
    IF old # None
    THEN Some([status EXCEPT !.documentsFound = Val(old).documentsFound])
    ELSE Some(status)

\* What set({ processingStatus: status }) leaves in the store.
storedStatus(old, status) == Some(status)

updateProcessingStatus(s, status) ==
    LET s1 == [s EXCEPT !.processingStatus = storedStatus(s.processingStatus, status)]
    IN IF status.phase = "complete" /\ s1.companyContext # None
       THEN transitionToPhase(s1, "chat")
       ELSE s1

markCompanyAsProcessed(s, ticker) ==
    [s EXCEPT !.processedCompanies = s.processedCompanies \cup {ticker}]

isCompanyProcessed(s, ticker) == ticker \in s.processedCompanies

completeProcessing(s, context) ==
    markCompanyAsProcessed(
        [s EXCEPT !.previousPhase = Some(s.currentPhase),
                  !.currentPhase = "chat",
                  !.companyContext = Some(context),
                  !.processingStatus = Some(context.processingStatus),
                  !.processingEndTime = Some("now"),
                  !.chatEnabled = TRUE,
                  !.workflowError = None],
        context.ticker)

\* A failure that records the workflowError only.
failProcessingKeepingPhase(s, error, details) ==
    [s EXCEPT !.workflowError = Some([phase |-> "processing", message |-> error,
                                      details |-> details, recoverable |-> TRUE]),
              !.processingEndTime = Some("now")]

failProcessing(s, error, details) ==
    [s EXCEPT !.processingStatus =
                  IF s.processingStatus # None
                  THEN Some([Val(s.processingStatus) EXCEPT !.phase = "error",
                                                            !.error = error])
                  ELSE None,
              !.workflowError = Some([phase |-> "processing", message |-> error,
                                      details |-> details, recoverable |-> TRUE]),
              !.processingEndTime = Some("now")]

\* A reset that leaves the processing fields as they are.
resetWorkflowKeepingStatus(s) ==
    [s EXCEPT !.currentPhase = "input",
              !.previousPhase = None,
              !.selectedTicker = "",
              !.selectedTimeRange = DefaultTimeRange,
              !.messages = <<>>,
              !.companyContext = None,
              !.chatEnabled = FALSE,
              !.workflowError = None]

resetWorkflow(s) ==
    [s EXCEPT !.currentPhase = "input",
              !.previousPhase = None,
              !.selectedTicker = "",
              !.selectedTimeRange = DefaultTimeRange,
              !.processingStatus = None,
              !.processingProgress = None,
              !.processingJobId = None,
              !.processingEndTime = None,
              !.messages = <<>>,
              !.companyContext = None,
              !.chatEnabled = FALSE,
              !.workflowError = None,
              !.processedCompanies = {}]

\* sendMessage has no await: the user message and the placeholder reply are
\* appended in one run of the handler.
sendMessageAccepted(s) == s.chatEnabled /\ s.companyContext # None

sendMessage(s, message) ==
    IF ~sendMessageAccepted(s)
    THEN s
    ELSE [s EXCEPT !.messages = s.messages
                        \o <<[type |-> "user", content |-> message],
                             [type |-> "assistant", content |-> PlaceholderAnswer]>>,
                   !.isTyping = FALSE]

-----------------------------------------------------------------------------
(* The ingestion service: one job per ticker, as the design describes it *)

NewJob(jobId, timeRange) ==
    [jobId |-> jobId, timeRange |-> timeRange, phase |-> "scraping",
     documentsFound |-> 0, documentsProcessed |-> 0,
     chunksCreated |-> 0, chunksVectorized |-> 0, error |-> ""]

\* The body of GET /companies/{ticker}/status.
Snapshot(ticker, job) ==
    [ticker |-> ticker, phase |-> job.phase,
     documentsFound |-> job.documentsFound,
     documentsProcessed |-> job.documentsProcessed,
     chunksCreated |-> job.chunksCreated,
     chunksVectorized |-> job.chunksVectorized, error |-> job.error]

JobFailedMessage == "Processing failed"
JobCancelledMessage == "cancelled"

\* The steps one job can take, after the pipeline of the design: each phase
\* hands its whole result to the next one, and the counters are published
\* with the phase: the filings found when scraping ends, the documents parsed
\* when parsing ends, the chunks created when chunking ends, the chunks
\* written to the index when vectorizing ends.
JobSteps(job) ==
    CASE job.phase = "scraping" ->
            {[job EXCEPT !.phase = "parsing", !.documentsFound = MaxDocs]}
      [] job.phase = "parsing" ->
            {[job EXCEPT !.phase = "chunking",
                         !.documentsProcessed = job.documentsFound]}
      [] job.phase = "chunking" ->
            {[job EXCEPT !.phase = "vectorizing", !.chunksCreated = MaxChunks]}
      [] job.phase = "vectorizing" ->
            {[job EXCEPT !.phase = "complete",
                         !.chunksVectorized = job.chunksCreated]}
      [] OTHER -> {}

-----------------------------------------------------------------------------
(* The service's endpoints *)

\* POST /companies/process: submit is idempotent at (ticker, timeRange); a
\* job of that identity that has not failed is reused, otherwise a job starts.
reusesJob(jobs, ticker, timeRange) ==
    /\ jobs[ticker] # None
    /\ Val(jobs[ticker]).timeRange = timeRange
    /\ Val(jobs[ticker]).phase # "error"

submitJob(jobs, id, ticker, timeRange) ==
    IF reusesJob(jobs, ticker, timeRange)
    THEN jobs
    ELSE [jobs EXCEPT ![ticker] = Some(NewJob(id, timeRange))]

\* GET /companies/{ticker}/status: the job as it is now; no job, no answer.
statusResponse(jobs, ticker) ==
    IF jobs[ticker] # None THEN Some(Snapshot(ticker, Val(jobs[ticker]))) ELSE None

\* POST /companies/{ticker}/cancel: a running job ends in error, cancelled.
cancelJob(jobs, ticker) ==
    IF jobs[ticker] # None /\ Val(jobs[ticker]).phase \in NonTerminalPhases
    THEN [jobs EXCEPT ![ticker] =
             Some([Val(jobs[ticker]) EXCEPT !.phase = "error",
                                            !.error = JobCancelledMessage])]
    ELSE jobs

-----------------------------------------------------------------------------
(* App, ProcessingStatusPanel and the useProcessingStatus hook *)

\* App renders ProcessingStatusPanel, and with it the hook, in the processing
\* phase when the store holds a status.
panelMounted(s) == s.currentPhase = "processing" /\ s.processingStatus # None

\* The polling effect of useProcessingStatus({ticker, enabled}) run with the
\* store's processingStatus: whether it calls startPolling(ticker), and the
\* tickers startPolling then sends a status request for.
effectOf(ticker, enabled, processingStatus) ==
    LET starts == /\ ticker # ""
                  /\ enabled
                  /\ processingStatus # None
                  /\ Val(processingStatus).phase \notin TerminalPhases
    IN [startsPolling |-> starts,
        requested |-> IF starts THEN {ticker} ELSE {}]

\* The effect as the panel mounts the hook: it passes ticker = status.ticker
\* and enabled = the status is not terminal.
pollingWanted(s) ==
    /\ s.processingStatus # None
    /\ effectOf(Val(s.processingStatus).ticker,
                Val(s.processingStatus).phase \notin TerminalPhases,
                s.processingStatus).startsPolling

\* { ...processingStatus, phase: 'error', error } over the processingStatus a
\* callback's closure holds: null stays null.
asError(captured, error) ==
    IF captured # None
    THEN Some([Val(captured) EXCEPT !.phase = "error", !.error = error])
    ELSE None

\* fetchStatus(tickerSymbol) as created in the render of store state s: the
\* request it sends, and what its catch block would write, which the
\* processingStatus of the closure fixes.
fetchStatus(s, jobs) ==
    [ticker |-> Val(s.processingStatus).ticker,
     onReject |-> asError(s.processingStatus, FetchFailedMessage),
     resp |-> statusResponse(jobs, Val(s.processingStatus).ticker)]

\* The polling effect after a handler has left the store in state s2. The
\* effect depends on startPolling, which is re-created whenever the store's
\* processingStatus object is replaced (statusSet): its cleanup stops polling,
\* its body starts polling again, and startPolling fetches at once.
effectRuns(s2, statusSet) == panelMounted(s2) /\ (~panelMounted(store) \/ statusSet)

Render(s2, statusSet, pending, jobs) ==
    /\ isPolling' = IF ~panelMounted(s2) THEN FALSE
                    ELSE IF effectRuns(s2, statusSet) THEN pollingWanted(s2)
                    ELSE isPolling
    /\ polls' = IF effectRuns(s2, statusSet) /\ pollingWanted(s2)
                THEN pending (+) SetToBag({fetchStatus(s2, jobs)})
                ELSE pending
    /\ BagCardinality(polls') <= MaxPolls
    /\ pollCount' = pollCount + BagCardinality(polls') - BagCardinality(pending)
    /\ pollCount' <= MaxStatusRequests

-----------------------------------------------------------------------------
(* The query engine of the design: FinancialRAGEngine *)

MaxQueries == 2    \* process_query calls made in one behaviour

IndexedTickers == {"AAPL", "MSFT"}

\* Similarity of an index entry to the question, in hundredths.
Scores == {60, 80}
ScoreThreshold == 70
TopK == 8

\* An entry of the vector store: a chunk with its ticker metadata
\* (convert_chunks_to_langchain_docs) and its similarity to the question.
IndexEntries == [ticker : IndexedTickers, score : Scores]

\* The retriever setup_rag_chain gives the chain.
setupRetriever ==
    [filter |-> None, scoreThreshold |-> Some(ScoreThreshold), k |-> TopK]

\* The retriever process_query builds: search_kwargs hold the ticker filter
\* and k, and no score threshold.
companyRetriever(ticker) ==
    [filter |-> Some(ticker), scoreThreshold |-> None, k |-> TopK]

\* The k entries of S with the highest scores.
topK(S, k) ==
    IF Cardinality(S) <= k
    THEN S
    ELSE CHOOSE T \in SUBSET S :
             /\ Cardinality(T) = k
             /\ \A e \in T, f \in S \ T : e.score >= f.score

\* What a retriever returns from the index.
relevantDocuments(retriever, entries) ==
    topK({e \in entries :
             /\ retriever.filter # None => e.ticker = Val(retriever.filter)
             /\ retriever.scoreThreshold # None
                    => e.score >= Val(retriever.scoreThreshold)},
         retriever.k)

\* extract_citations_from_sources: one citation per source document.
extractCitations(sources) == {[chunk |-> e] : e \in sources}

\* The chain's answer: the prompt tells the model to say so when the context
\* does not hold the information.
chainAnswer(sources) == [insufficient |-> sources = {}]

EngineIdle ==
    /\ vectorIndex = {}
    /\ dbStatus = [t \in IndexedTickers |-> "scraping"]
    /\ chainRetriever = setupRetriever
    /\ queries = <<>>

\* process_query(query, ticker) is called: it awaits the processing status.
ProcessQuery(ticker) ==
    /\ Len(queries) < MaxQueries
    /\ queries' = Append(queries,
           [ticker |-> ticker, at |-> "status", sources |-> {},
            answer |-> None, citations |-> {}])
    /\ UNCHANGED <<clientVars, vectorIndex, dbStatus, chainRetriever, pipeline, formVars>>

\* Steps 1 to 4 up to the await of qa_chain.acall: the status check, then the
\* company retriever is assigned to the shared chain.
StatusChecked(i) ==
    /\ queries[i].at = "status"
    /\ IF dbStatus[queries[i].ticker] # "complete"
       THEN /\ queries' = [queries EXCEPT ![i].at = "CompanyNotProcessedError"]
            /\ UNCHANGED chainRetriever
       ELSE /\ queries' = [queries EXCEPT ![i].at = "acall"]
            /\ chainRetriever' = companyRetriever(queries[i].ticker)
    /\ UNCHANGED <<clientVars, vectorIndex, dbStatus, pipeline, formVars>>

\* Inside the awaited acall the chain reads its retriever attribute and
\* fetches the documents.
ChainRetrieves(i) ==
    /\ queries[i].at = "acall"
    /\ queries' = [queries EXCEPT
           ![i].at = "generating",
           ![i].sources = relevantDocuments(chainRetriever, vectorIndex)]
    /\ UNCHANGED <<clientVars, vectorIndex, dbStatus, chainRetriever, pipeline, formVars>>

\* acall returns result and source_documents; step 5 extracts the citations;
\* step 6 awaits generate_related_questions.
ChainReturns(i) ==
    /\ queries[i].at = "generating"
    /\ queries' = [queries EXCEPT
           ![i].at = "related",
           ![i].answer = Some(chainAnswer(queries[i].sources)),
           ![i].citations = extractCitations(queries[i].sources)]
    /\ UNCHANGED <<clientVars, vectorIndex, dbStatus, chainRetriever, pipeline, formVars>>

\* generate_related_questions returns: process_query returns the RAGResponse.
RelatedGenerated(i) ==
    /\ queries[i].at = "related"
    /\ queries' = [queries EXCEPT ![i].at = "returned"]
    /\ UNCHANGED <<clientVars, vectorIndex, dbStatus, chainRetriever, pipeline, formVars>>

\* llm.agenerate raises inside generate_related_questions: nothing catches
\* it, process_query raises.
RelatedFailed(i) ==
    /\ queries[i].at = "related"
    /\ queries' = [queries EXCEPT ![i].at = "raised"]
    /\ UNCHANGED <<clientVars, vectorIndex, dbStatus, chainRetriever, pipeline, formVars>>

EngineNext ==
    \/ \E t \in IndexedTickers : ProcessQuery(t)
    \/ \E i \in DOMAIN queries : StatusChecked(i)
    \/ \E i \in DOMAIN queries : ChainRetrieves(i)
    \/ \E i \in DOMAIN queries : ChainReturns(i)
    \/ \E i \in DOMAIN queries : RelatedGenerated(i)
    \/ \E i \in DOMAIN queries : RelatedFailed(i)

-----------------------------------------------------------------------------
(* The ingestion pipeline of the design: DocumentProcessingPipeline *)

MaxFilings == 4         \* filings scrape_filings returns
MaxChunksPerDoc == 2    \* chunks create_chunks makes of one document

\* A filing is told by whether parse_filing succeeds on it or raises.
FilingLists ==
    UNION {[1..n -> {"parses", "fails"}] : n \in 0..MaxFilings}

PipelineTicker == "AAPL"
PipelineYears == 5

PipelineIdle ==
    [at |-> "idle", filings |-> <<>>, parsed |-> 0, documents |-> 0, chunked |-> 0,
     all_chunks |-> 0, emitted |-> <<>>, result |-> None]

\* process_company is called: status_callback("scraping", 0), then the
\* scraper is awaited.
ProcessCompany ==
    /\ pipeline.at = "idle"
    /\ pipeline' = [pipeline EXCEPT !.at = "scraping",
                                    !.emitted = <<"scraping">>]
    /\ UNCHANGED <<clientVars, engineVars, formVars>>

\* scrape_filings returns the filings; status_callback("parsing", 25).
FilingsScraped(filings) ==
    /\ pipeline.at = "scraping"
    /\ pipeline' = [pipeline EXCEPT !.at = "parsing",
                                    !.filings = filings,
                                    !.emitted = Append(@, "parsing")]
    /\ UNCHANGED <<clientVars, engineVars, formVars>>

\* One turn of the parsing loop: parse_filing returns a document, which is
\* stored and appended, or raises, and nothing in process_company catches it.
ParseFiling ==
    /\ pipeline.at = "parsing"
    /\ pipeline.parsed < Len(pipeline.filings)
    /\ pipeline' =
           IF pipeline.filings[pipeline.parsed + 1] = "parses"
           THEN [pipeline EXCEPT !.parsed = @ + 1, !.documents = @ + 1]
           ELSE [pipeline EXCEPT !.at = "raised"]
    /\ UNCHANGED <<clientVars, engineVars, formVars>>

\* The parsing loop has ended; status_callback("chunking", 50).
ParsingDone ==
    /\ pipeline.at = "parsing"
    /\ pipeline.parsed = Len(pipeline.filings)
    /\ pipeline' = [pipeline EXCEPT !.at = "chunking",
                                    !.emitted = Append(@, "chunking")]
    /\ UNCHANGED <<clientVars, engineVars, formVars>>

\* One turn of the chunking loop: create_chunks(doc) gives n chunks.
ChunkDocument(n) ==
    /\ pipeline.at = "chunking"
    /\ pipeline.chunked < pipeline.documents
    /\ pipeline' = [pipeline EXCEPT !.chunked = @ + 1, !.all_chunks = @ + n]
    /\ UNCHANGED <<clientVars, engineVars, formVars>>

\* The chunking loop has ended; status_callback("vectorizing", 75).
ChunkingDone ==
    /\ pipeline.at = "chunking"
    /\ pipeline.chunked = pipeline.documents
    /\ pipeline' = [pipeline EXCEPT !.at = "vectorizing",
                                    !.emitted = Append(@, "vectorizing")]
    /\ UNCHANGED <<clientVars, engineVars, formVars>>

\* aadd_documents returns; status_callback("complete", 100); the
\* ProcessingResult is returned.
Vectorized ==
    /\ pipeline.at = "vectorizing"
    /\ pipeline' = [pipeline EXCEPT
           !.at = "complete",
           !.emitted = Append(@, "complete"),
           !.result = Some([ticker |-> PipelineTicker,
                            documents_processed |-> pipeline.documents,
                            chunks_created |-> pipeline.all_chunks,
                            status |-> "complete"])]
    /\ UNCHANGED <<clientVars, engineVars, formVars>>

-----------------------------------------------------------------------------
(* ProcessingStatusPanel: progress of the run, computed from the status.
   Numbers that need not be whole are fractions [num, den], den > 0. *)

Frac(num, den) == [num |-> num, den |-> den]
FracAdd(x, y) == Frac(x.num * y.den + y.num * x.den, x.den * y.den)
FracMul(x, y) == Frac(x.num * y.num, x.den * y.den)
FracEq(x, y) == x.num * y.den = y.num * x.den
FracLeq(x, y) == x.num * y.den <= y.num * x.den
FracMin(x, y) == IF FracLeq(x, y) THEN x ELSE y

PHASE_STEPS == <<"scraping", "parsing", "chunking", "vectorizing">>

\* PHASE_STEPS.findIndex(step => step.key === status.phase)
getCurrentStepIndex(status) ==
    IF \E i \in DOMAIN PHASE_STEPS : PHASE_STEPS[i] = status.phase
    THEN (CHOOSE i \in DOMAIN PHASE_STEPS : PHASE_STEPS[i] = status.phase) - 1
    ELSE -1

\* 100 / PHASE_STEPS.length
StepShare == Frac(100, Len(PHASE_STEPS))

\* baseProgress + phaseProgress of getPhaseProgress, for a phase of PHASE_STEPS.
progressSum(status) ==
    LET baseProgress == Frac(getCurrentStepIndex(status) * 100, Len(PHASE_STEPS))
        phaseProgress ==
            CASE status.phase \in {"scraping", "parsing"} ->
                     IF status.documentsFound > 0
                     THEN FracMul(Frac(status.documentsProcessed,
                                       status.documentsFound), StepShare)
                     ELSE Frac(0, 1)
              [] status.phase = "chunking" ->
                     IF status.documentsProcessed > 0
                     THEN FracMul(Frac(status.chunksCreated,
                                       status.documentsProcessed * 10), StepShare)
                     ELSE Frac(0, 1)
              [] status.phase = "vectorizing" ->
                     IF status.chunksCreated > 0
                     THEN FracMul(Frac(status.chunksVectorized,
                                       status.chunksCreated), StepShare)
                     ELSE Frac(0, 1)
    IN FracAdd(baseProgress, phaseProgress)

\* getPhaseProgress without the Math.min.
getPhaseProgressUnclamped(status) ==
    IF getCurrentStepIndex(status) = -1
    THEN Frac(0, 1)
    ELSE progressSum(status)

getPhaseProgress(status) ==
    IF getCurrentStepIndex(status) = -1
    THEN Frac(0, 1)
    ELSE FracMin(progressSum(status), Frac(100, 1))

-----------------------------------------------------------------------------
(* useDebounce, and useCompanySearch which debounces the search query.
   Time is counted in ticks; a string is the sequence of its characters. *)

MaxDelay == 2    \* ticks of the longest delay

\* The hook's state: the input value of the last render, the value returned,
\* and the ticks left on the pending timeout (None when there is none).
debounceOf(value) == [value |-> value, debounced |-> value, timer |-> None]

\* A render with a new input value that keeps the running timeout.
debounceRenderedKeepingTimer(d, value, delay) ==
    IF value = d.value
    THEN d
    ELSE [d EXCEPT !.value = value,
                   !.timer = IF d.timer = None THEN Some(delay) ELSE d.timer]

\* A render with input `value`: a changed value clears the pending timeout and
\* sets a new one of `delay`.
debounceRendered(d, value, delay) ==
    IF value = d.value
    THEN d
    ELSE [d EXCEPT !.value = value, !.timer = Some(delay)]

\* A tick passes while a timeout is pending.
debounceTicked(d) == [d EXCEPT !.timer = Some(Val(d.timer) - 1)]

\* The timeout runs: the returned value becomes the input value.
debounceFired(d) == [d EXCEPT !.debounced = d.value, !.timer = None]

SearchDelay == 2     \* useDebounce(searchQuery, 300), in ticks
MinQueryLength == 2

SearchQueries == {<<>>, <<"A">>, <<"A", "A">>, <<"A", "A", "P">>}

SearchIdle == [query |-> debounceOf(<<>>), issued |-> <<>>]

\* The searches useQuery issues when the hook renders with debouncedQuery:
\* enabled from two characters, and a key fetched before is served from the
\* cache while it is fresh.
queryIssued(issued, debouncedQuery) ==
    IF /\ Len(debouncedQuery) >= MinQueryLength
       /\ \A i \in DOMAIN issued : issued[i] # debouncedQuery
    THEN Append(issued, debouncedQuery)
    ELSE issued

\* searchCompanies(query): setSearchQuery.
SearchCompanies(q) ==
    /\ search' = [search EXCEPT !.query = debounceRendered(@, q, SearchDelay)]
    /\ UNCHANGED <<clientVars, serviceVars, form>>

SearchTick ==
    /\ search.query.timer # None
    /\ Val(search.query.timer) > 0
    /\ search' = [search EXCEPT !.query = debounceTicked(@)]
    /\ UNCHANGED <<clientVars, serviceVars, form>>

SearchTimeout ==
    /\ search.query.timer = Some(0)
    /\ search' = [query |-> debounceFired(search.query),
                  issued |-> queryIssued(search.issued,
                                         debounceFired(search.query).debounced)]
    /\ UNCHANGED <<clientVars, serviceVars, form>>

SearchNext ==
    \/ \E q \in SearchQueries : SearchCompanies(q)
    \/ SearchTick
    \/ SearchTimeout

-----------------------------------------------------------------------------
(* CompanyInputForm *)

FormDelay == 2    \* useDebounce(ticker, 500), in ticks

\* What the user types into the ticker field, and its upper-case form.
TypedTickers == {"", "aapl", "AAPL", "zzzz"}

toUpperCase(text) ==
    CASE text = "aapl" -> "AAPL"
      [] text = "zzzz" -> "ZZZZ"
      [] OTHER -> text

\* The tickers GET /companies/validate/{ticker} answers isValid = true for.
ValidTickers == {"AAPL"}

validationResponse(ticker) == [ticker |-> ticker, isValid |-> ticker \in ValidTickers]

ValidateFailedMessage == "Failed to validate ticker. Please try again."
InvalidTickerMessage == "Please enter a valid company ticker"

FormInitial ==
    [ticker |-> "", debouncedTicker |-> debounceOf(""),
     validationResult |-> None, isValidating |-> FALSE, error |-> None,
     validating |-> {}, submitted |-> {}]

FormIdle == search = SearchIdle /\ form = FormInitial

\* validationResult?.isValid
resultIsValid(f) == f.validationResult # None /\ Val(f.validationResult).isValid

\* The validation effect, run when debouncedTicker has changed: up to the
\* await of the request.
validateTicker(f) ==
    IF f.debouncedTicker.debounced = ""
    THEN [f EXCEPT !.validationResult = None]
    ELSE [f EXCEPT !.isValidating = TRUE,
                   !.error = None,
                   !.validating = @ \cup {toUpperCase(f.debouncedTicker.debounced)}]

\* handleTickerChange
handleTickerChange(f, typed) ==
    [f EXCEPT !.ticker = toUpperCase(typed),
              !.error = None,
              !.debouncedTicker = debounceRendered(@, toUpperCase(typed), FormDelay)]

\* handleSubmit: the onSubmit calls are collected in submitted.
handleSubmit(f) ==
    IF ~resultIsValid(f)
    THEN [f EXCEPT !.error = Some(InvalidTickerMessage)]
    ELSE [f EXCEPT !.submitted = @ \cup {toUpperCase(f.ticker)}]

HandleTickerChange(typed) ==
    /\ form' = handleTickerChange(form, typed)
    /\ UNCHANGED <<clientVars, serviceVars, search>>

FormTick ==
    /\ form.debouncedTicker.timer # None
    /\ Val(form.debouncedTicker.timer) > 0
    /\ form' = [form EXCEPT !.debouncedTicker = debounceTicked(@)]
    /\ UNCHANGED <<clientVars, serviceVars, search>>

\* The timeout of useDebounce runs; if debouncedTicker changes, the
\* validation effect runs.
FormTimeout ==
    /\ form.debouncedTicker.timer = Some(0)
    /\ LET fired == [form EXCEPT !.debouncedTicker = debounceFired(@)]
       IN form' = IF fired.debouncedTicker.debounced # form.debouncedTicker.debounced
                  THEN validateTicker(fired)
                  ELSE fired
    /\ UNCHANGED <<clientVars, serviceVars, search>>

\* The validation request for `ticker` resolves.
ValidationResolved(ticker) ==
    /\ ticker \in form.validating
    /\ form' = [form EXCEPT !.validating = @ \ {ticker},
                            !.validationResult = Some(validationResponse(ticker)),
                            !.isValidating = FALSE]
    /\ UNCHANGED <<clientVars, serviceVars, search>>

\* The validation request for `ticker` rejects.
ValidationRejected(ticker) ==
    /\ ticker \in form.validating
    /\ form' = [form EXCEPT !.validating = @ \ {ticker},
                            !.error = Some(ValidateFailedMessage),
                            !.validationResult = None,
                            !.isValidating = FALSE]
    /\ UNCHANGED <<clientVars, serviceVars, search>>

HandleSubmit ==
    /\ form' = handleSubmit(form)
    /\ UNCHANGED <<clientVars, serviceVars, search>>

FormNext ==
    \/ \E typed \in TypedTickers : HandleTickerChange(typed)
    \/ FormTick
    \/ FormTimeout
    \/ \E ticker \in form.validating : ValidationResolved(ticker)
    \/ \E ticker \in form.validating : ValidationRejected(ticker)
    \/ HandleSubmit

-----------------------------------------------------------------------------
(* Initial state *)

ClientInit ==
    /\ store = InitialStore
    /\ isPolling = FALSE
    /\ startReqs = {}
    /\ polls = EmptyBag
    /\ cancelReqs = {}
    /\ requestCount = 0
    /\ pollCount = 0
    /\ serverJobs = [t \in Tickers |-> None]

Init == ClientInit /\ EngineIdle /\ pipeline = PipelineIdle /\ FormIdle

-----------------------------------------------------------------------------
(* Calls of the store *)

\* The start request of startProcessing, and the jobId its response carries.
startRequest(id, request, jobs) ==
    [id |-> id, ticker |-> request.ticker, timeRange |-> request.timeRange,
     jobId |-> Val(submitJob(jobs, id, request.ticker, request.timeRange)[request.ticker]).jobId]

\* startProcessing(request) up to its await: App.handleProcessingRequest.
startAccepted(s) == canTransitionTo(s, "processing")

CallStartProcessing(ticker, timeRange) ==
    LET request == [ticker |-> ticker, timeRange |-> timeRange]
        s2 == startProcessingSet(store, request)
    IN IF ~startAccepted(store)
       THEN UNCHANGED vars
       ELSE /\ requestCount < MaxStarts
            /\ store' = s2
            /\ requestCount' = requestCount + 1
            /\ startReqs' = startReqs \cup {startRequest(requestCount + 1, request, serverJobs)}
            /\ serverJobs' = submitJob(serverJobs, requestCount + 1, ticker, timeRange)
            /\ Render(s2, TRUE, polls, serverJobs')
            /\ UNCHANGED <<cancelReqs, serviceVars, formVars>>

\* A resolved start request whose jobId is not stored.
startProcessingResolvedWithoutJob(s, jobId) == s

\* The start request resolves: set({ processingJobId: response.jobId }).
startProcessingResolved(s, jobId) == [s EXCEPT !.processingJobId = Some(jobId)]

StartResolved(q) ==
    /\ q \in startReqs
    /\ startReqs' = startReqs \ {q}
    /\ store' = startProcessingResolved(store, q.jobId)
    /\ Render(store', FALSE, polls, serverJobs)
    /\ UNCHANGED <<cancelReqs, requestCount, serverJobs, serviceVars, formVars>>

\* The start request rejects: the catch block calls failProcessing.
startProcessingRejected(s) == failProcessing(s, StartFailedMessage, StartFailedDetails)

StartRejected(q) ==
    /\ q \in startReqs
    /\ startReqs' = startReqs \ {q}
    /\ store' = startProcessingRejected(store)
    /\ Render(store', store.processingStatus # None, polls, serverJobs)
    /\ UNCHANGED <<cancelReqs, requestCount, serverJobs, serviceVars, formVars>>

\* resetWorkflow: the Start Over and Analyze Another Company buttons.
CallResetWorkflow ==
    /\ store' = resetWorkflow(store)
    /\ Render(store', TRUE, polls, serverJobs)
    /\ UNCHANGED <<startReqs, cancelReqs, requestCount, serverJobs, serviceVars, formVars>>

\* transitionToPhase(phase), the only caller of setWorkflowPhase. No control
\* of the application calls it; the behaviours call it with 'input', the
\* phase canTransitionTo always allows.
CallTransitionToPhase(phase) ==
    /\ store' = transitionToPhase(store, phase)
    /\ Render(store', phase = "input" /\ store.processingStatus # None, polls, serverJobs)
    /\ UNCHANGED <<startReqs, cancelReqs, requestCount, serverJobs, serviceVars, formVars>>

\* sendMessage(message): ChatInterface.handleSendMessage, which needs a
\* non-empty input and isTyping = false.
CallSendMessage(message) ==
    /\ ~store.isTyping
    /\ Len(store.messages) + 2 <= MaxMessages
    /\ store' = sendMessage(store, message)
    /\ UNCHANGED <<isPolling, startReqs, polls, cancelReqs, requestCount, pollCount, serverJobs, serviceVars, formVars>>

\* retryFromError: clears the error, then calls startProcessing for the
\* selected ticker and time range.
retryAccepted(s) == s.workflowError # None /\ Val(s.workflowError).recoverable

CallRetryFromError ==
    IF ~retryAccepted(store)
    THEN UNCHANGED vars
    ELSE LET cleared == clearWorkflowError(store)
             request == [ticker |-> store.selectedTicker,
                         timeRange |-> store.selectedTimeRange]
             starts == /\ Val(store.workflowError).phase = "processing"
                       /\ store.selectedTicker # ""
                       /\ startAccepted(cleared)
             s2 == IF starts THEN startProcessingSet(cleared, request) ELSE cleared
         IN /\ starts => requestCount < MaxStarts
            /\ store' = s2
            /\ requestCount' = IF starts THEN requestCount + 1 ELSE requestCount
            /\ startReqs' = IF starts
                            THEN startReqs \cup
                                   {startRequest(requestCount + 1, request, serverJobs)}
                            ELSE startReqs
            /\ serverJobs' = IF starts
                             THEN submitJob(serverJobs, requestCount + 1,
                                            request.ticker, request.timeRange)
                             ELSE serverJobs
            /\ Render(s2, starts, polls, serverJobs')
            /\ UNCHANGED <<cancelReqs, serviceVars, formVars>>

-----------------------------------------------------------------------------
(* The hook: polling and cancel *)

\* The setInterval callback of startPolling: fetchStatus(tickerSymbol).
IntervalTick ==
    /\ isPolling
    /\ panelMounted(store)
    /\ BagCardinality(polls) < MaxPolls
    /\ pollCount < MaxStatusRequests
    /\ polls' = polls (+) SetToBag({fetchStatus(store, serverJobs)})
    /\ pollCount' = pollCount + 1
    /\ UNCHANGED <<store, isPolling, startReqs, cancelReqs, requestCount, serverJobs, serviceVars, formVars>>

\* The CompanyContext fetchStatus builds from a complete status.
contextOf(status) ==
    [ticker |-> status.ticker,
     processingStatus |-> status,
     documentsAvailable |-> status.documentsProcessed]

\* fetchStatus after the status request resolved with `status`.
fetchStatusResolved(s, status) ==
    LET s1 == updateProcessingStatus(s, status)
    IN IF status.phase = "complete"
       THEN completeProcessing(s1, contextOf(status))
       ELSE s1

\* A catch block that only logs.
fetchStatusRejectedSilently(s, onReject) == s

\* fetchStatus after the status request rejected: the catch block.
fetchStatusRejected(s, onReject) ==
    IF onReject # None THEN updateProcessingStatus(s, Val(onReject)) ELSE s

PollResolved(p) ==
    /\ p \in BagToSet(polls)
    /\ p.resp # None
    /\ store' = fetchStatusResolved(store, Val(p.resp))
    /\ Render(store', TRUE, polls (-) SetToBag({p}), serverJobs)
    /\ UNCHANGED <<startReqs, cancelReqs, requestCount, serverJobs, serviceVars, formVars>>

PollRejected(p) ==
    /\ p \in BagToSet(polls)
    /\ store' = fetchStatusRejected(store, p.onReject)
    /\ Render(store', p.onReject # None, polls (-) SetToBag({p}), serverJobs)
    /\ UNCHANGED <<startReqs, cancelReqs, requestCount, serverJobs, serviceVars, formVars>>

\* ProcessingStatusPanel.handleCancel up to its await: the cancel button is
\* shown while the status is not terminal; cancelProcessing(status.ticker)
\* posts the request; the processingStatus of the closure fixes what its
\* continuation would write.
CancelClicked ==
    /\ panelMounted(store)
    /\ Val(store.processingStatus).phase \notin TerminalPhases
    /\ Cardinality(cancelReqs) < MaxCancels
    /\ cancelReqs' = cancelReqs \cup
           {[ticker |-> Val(store.processingStatus).ticker,
             onResolve |-> asError(store.processingStatus, CancelledMessage)]}
    /\ serverJobs' = cancelJob(serverJobs, Val(store.processingStatus).ticker)
    /\ UNCHANGED <<store, isPolling, startReqs, polls, requestCount, pollCount, serviceVars, formVars>>

\* cancelProcessing after the cancel request resolved.
cancelProcessingResolved(s, onResolve) ==
    IF onResolve # None THEN updateProcessingStatus(s, Val(onResolve)) ELSE s

\* App.handleCancelProcessing, the panel's onCancel.
handleCancelProcessing(s) == resetWorkflow(s)

\* handleCancel after its await: cancelProcessing's continuation, then onCancel.
handleCancelResolved(s, onResolve) ==
    handleCancelProcessing(cancelProcessingResolved(s, onResolve))

CancelResolved(c) ==
    /\ c \in cancelReqs
    /\ cancelReqs' = cancelReqs \ {c}
    /\ store' = handleCancelResolved(store, c.onResolve)
    /\ Render(store', TRUE, polls, serverJobs)
    /\ UNCHANGED <<startReqs, requestCount, serverJobs, serviceVars, formVars>>

\* A variant of handleCancelRejected that invokes onCancel on failure as well.
handleCancelRejectedInvokingOnCancel(s) == handleCancelProcessing(s)

\* handleCancel after its await threw: cancelProcessing's catch logs and
\* rethrows before stopPolling and updateProcessingStatus are reached, and
\* handleCancel's catch logs, skipping onCancel; the store is left as it is.
handleCancelRejected(s) == s

\* The cancel request rejected: nothing is written, so nothing re-renders
\* and the interval keeps running.
CancelRejected(c) ==
    /\ c \in cancelReqs
    /\ cancelReqs' = cancelReqs \ {c}
    /\ store' = handleCancelRejected(store)
    /\ UNCHANGED <<isPolling, startReqs, polls, requestCount, pollCount, serverJobs, serviceVars, formVars>>

-----------------------------------------------------------------------------
(* The service's jobs *)

ServerAdvance(ticker) ==
    /\ serverJobs[ticker] # None
    /\ \E next \in JobSteps(Val(serverJobs[ticker])) :
           serverJobs' = [serverJobs EXCEPT ![ticker] = Some(next)]
    /\ UNCHANGED <<store, isPolling, startReqs, polls, cancelReqs, requestCount, pollCount, serviceVars, formVars>>

\* A job-fatal failure: the issuer is not resolved or no filing is found,
\* both while scraping.
ServerFail(ticker) ==
    /\ serverJobs[ticker] # None
    /\ Val(serverJobs[ticker]).phase = "scraping"
    /\ serverJobs' = [serverJobs EXCEPT ![ticker] =
           Some([Val(serverJobs[ticker]) EXCEPT !.phase = "error",
                                                !.error = JobFailedMessage])]
    /\ UNCHANGED <<store, isPolling, startReqs, polls, cancelReqs, requestCount, pollCount, serviceVars, formVars>>

-----------------------------------------------------------------------------
(* Specification *)

Next ==
    \/ \E t \in Tickers, r \in RequestRanges : CallStartProcessing(t, r)
    \/ \E q \in startReqs : StartResolved(q)
    \/ \E q \in startReqs : StartRejected(q)
    \/ CallResetWorkflow
    \/ CallTransitionToPhase("input")
    \/ \E m \in Questions : CallSendMessage(m)
    \/ CallRetryFromError
    \/ IntervalTick
    \/ \E p \in BagToSet(polls) : PollResolved(p)
    \/ \E p \in BagToSet(polls) : PollRejected(p)
    \/ CancelClicked
    \/ \E c \in cancelReqs : CancelResolved(c)
    \/ \E c \in cancelReqs : CancelRejected(c)
    \/ \E t \in Tickers : ServerAdvance(t)
    \/ \E t \in Tickers : ServerFail(t)

Spec == Init /\ [][Next]_vars

-----------------------------------------------------------------------------
(* The engine on its own: any content of the shared index, any processing
   status per ticker, and the process_query calls made on it *)

EngineInit ==
    /\ ClientInit
    /\ vectorIndex \in SUBSET IndexEntries
    /\ dbStatus \in [IndexedTickers -> {"vectorizing", "complete"}]
    /\ chainRetriever = setupRetriever
    /\ queries = <<>>
    /\ pipeline = PipelineIdle /\ FormIdle

EngineSpec == EngineInit /\ [][EngineNext]_vars

-----------------------------------------------------------------------------
(* The pipeline on its own: the client has started processing the company,
   the pipeline runs once on whatever filings the scraper returns *)

PipelineInit ==
    /\ store = startProcessingSet(InitialStore,
                   [ticker |-> PipelineTicker, timeRange |-> PipelineYears])
    /\ isPolling = TRUE
    /\ startReqs = {}
    /\ polls = EmptyBag
    /\ cancelReqs = {}
    /\ requestCount = 1
    /\ pollCount = 0
    /\ serverJobs = [t \in Tickers |-> None]
    /\ EngineIdle
    /\ pipeline = PipelineIdle /\ FormIdle

\* The status the service reports of the finished run, from its result.
completedStatus(found, result) ==
    [ticker |-> result.ticker, phase |-> "complete",
     documentsFound |-> found,
     documentsProcessed |-> result.documents_processed,
     chunksCreated |-> result.chunks_created,
     chunksVectorized |-> result.chunks_created, error |-> ""]

\* The client's poll returns the complete status: fetchStatus.
CompletionPolled ==
    /\ pipeline.at = "complete"
    /\ store.companyContext = None
    /\ store' = fetchStatusResolved(store,
                    completedStatus(Len(pipeline.filings), Val(pipeline.result)))
    /\ UNCHANGED <<isPolling, startReqs, polls, cancelReqs, requestCount,
                   pollCount, serverJobs, engineVars, pipeline, formVars>>

PipelineNext ==
    \/ ProcessCompany
    \/ \E filings \in FilingLists : FilingsScraped(filings)
    \/ ParseFiling
    \/ ParsingDone
    \/ \E n \in 1..MaxChunksPerDoc : ChunkDocument(n)
    \/ ChunkingDone
    \/ Vectorized
    \/ CompletionPolled

PipelineSpec == PipelineInit /\ [][PipelineNext]_vars

-----------------------------------------------------------------------------
(* The panel on its own: it is mounted on a started run and shows whatever
   status with non-negative counters reaches the store *)

MaxCounter == 2    \* largest value of a counter of a status

Statuses ==
    [ticker : {PipelineTicker},
     phase : NonTerminalPhases \cup TerminalPhases,
     documentsFound : 0..MaxCounter, documentsProcessed : 0..MaxCounter,
     chunksCreated : 0..MaxCounter, chunksVectorized : 0..MaxCounter,
     error : {""}]

ProgressInit ==
    /\ store = startProcessingSet(InitialStore,
                   [ticker |-> PipelineTicker, timeRange |-> PipelineYears])
    /\ isPolling = FALSE
    /\ startReqs = {}
    /\ polls = EmptyBag
    /\ cancelReqs = {}
    /\ requestCount = 1
    /\ pollCount = 0
    /\ serverJobs = [t \in Tickers |-> None]
    /\ EngineIdle
    /\ pipeline = PipelineIdle /\ FormIdle

\* A status reaches the store and the panel renders it.
StatusShown(status) ==
    /\ store' = updateProcessingStatus(store, status)
    /\ UNCHANGED <<isPolling, startReqs, polls, cancelReqs, requestCount,
                   pollCount, serverJobs, serviceVars, formVars>>

ProgressNext == \E status \in Statuses : StatusShown(status)

ProgressSpec == ProgressInit /\ [][ProgressNext]_vars

-----------------------------------------------------------------------------
(* The transition guard on its own: the store in any combination of workflow
   phase, status, company context and workflow error, and the calls that
   consult canTransitionTo *)

\* What setWorkflowPhase(phase, force) and transitionToPhase(phase) return.
setWorkflowPhaseReturns(s, phase, force) == force \/ canTransitionTo(s, phase)

transitionToPhaseReturns(s, phase) == canTransitionTo(s, phase)

\* The start requests startProcessing(request) sends.
startProcessingSends(s, request) == IF startAccepted(s) THEN {request} ELSE {}

GuardStatuses ==
    {None} \cup {Some([InitialStatus(PipelineTicker) EXCEPT !.phase = ph]) :
                    ph \in NonTerminalPhases \cup TerminalPhases}

GuardContexts ==
    {None,
     Some(contextOf([InitialStatus(PipelineTicker) EXCEPT !.phase = "complete"]))}

GuardErrors ==
    {None,
     Some([phase |-> "processing", message |-> StartFailedMessage,
           details |-> StartFailedDetails, recoverable |-> TRUE])}

GuardStores ==
    {[InitialStore EXCEPT !.currentPhase = ph,
                          !.selectedTicker = PipelineTicker,
                          !.processingStatus = st,
                          !.companyContext = ctx,
                          !.workflowError = err] :
        ph \in WorkflowPhases, st \in GuardStatuses,
        ctx \in GuardContexts, err \in GuardErrors}

GuardInit ==
    /\ store \in GuardStores
    /\ isPolling = FALSE
    /\ startReqs = {}
    /\ polls = EmptyBag
    /\ cancelReqs = {}
    /\ requestCount = 0
    /\ pollCount = 0
    /\ serverJobs = [t \in Tickers |-> None]
    /\ EngineIdle
    /\ pipeline = PipelineIdle /\ FormIdle

\* setWorkflowPhase(phase, force) called directly.
CallSetWorkflowPhase(phase, force) ==
    /\ store' = setWorkflowPhase(store, phase, force)
    /\ Render(store', FALSE, polls, serverJobs)
    /\ UNCHANGED <<startReqs, cancelReqs, requestCount, serverJobs, serviceVars, formVars>>

GuardNext ==
    \/ \E p \in WorkflowPhases, force \in BOOLEAN : CallSetWorkflowPhase(p, force)
    \/ \E p \in WorkflowPhases : CallTransitionToPhase(p)
    \/ \E t \in Tickers, r \in RequestRanges : CallStartProcessing(t, r)

GuardSpec == GuardInit /\ [][GuardNext]_vars

-----------------------------------------------------------------------------
(* The company search on its own *)

SearchInit == ClientInit /\ EngineIdle /\ pipeline = PipelineIdle /\ FormIdle

SearchSpec == SearchInit /\ [][SearchNext]_vars

-----------------------------------------------------------------------------
(* The input form on its own *)

FormInit == ClientInit /\ EngineIdle /\ pipeline = PipelineIdle /\ FormIdle

FormSpec == FormInit /\ [][FormNext]_vars

-----------------------------------------------------------------------------
(* Properties *)

Rank(phase) == CHOOSE i \in 1..Len(PhaseOrder) : PhaseOrder[i] = phase

statusPhase(s) == Val(s.processingStatus).phase

\* The first processing run is under way: startProcessing has sent one start
\* request, neither a second one nor resetWorkflow has followed, and the
\* workflow is in the processing phase.
inFirstRun(s, count) ==
    count = 1 /\ s.selectedTicker # "" /\ s.currentPhase = "processing"

\* The store holds a status, not terminal, of the job the service runs for
\* (ticker, timeRange).
holdsNonTerminalJob(s, jobs, ticker, timeRange) ==
    /\ s.processingStatus # None
    /\ statusPhase(s) \in NonTerminalPhases
    /\ Val(s.processingStatus).ticker = ticker
    /\ jobs[ticker] # None
    /\ Val(jobs[ticker]).timeRange = timeRange

\* C1. Idempotent submit: while the store holds a non-terminal status of the
\* job (ticker, timeRange), a call startProcessing(ticker, timeRange) sends no
\* start request and leaves processingJobId as it is.
C1_IdempotentSubmit ==
    [][\A t \in Tickers, r \in RequestRanges :
          (holdsNonTerminalJob(store, serverJobs, t, r) /\ CallStartProcessing(t, r))
              => (startReqs' = startReqs
                  /\ store'.processingJobId = store.processingJobId)]_vars

\* C2. No phase regression: within one processing run every step that leaves
\* a status in the store keeps its phase or moves it forward in the order
\* scraping, parsing, chunking, vectorizing, complete, or sets it to error.
C2_NoPhaseRegression ==
    [][(/\ inFirstRun(store, requestCount) /\ inFirstRun(store', requestCount')
        /\ store.processingStatus # None /\ store'.processingStatus # None
        /\ statusPhase(store) # "error")
           => (\/ statusPhase(store') = "error"
               \/ Rank(statusPhase(store)) <= Rank(statusPhase(store')))]_vars

\* C3. Terminal states are absorbing: within one processing run, once the
\* status in the store is complete or error no step puts a non-terminal
\* phase in its place.
C3_TerminalAbsorbing ==
    [][(/\ inFirstRun(store, requestCount) /\ inFirstRun(store', requestCount')
        /\ store.processingStatus # None
        /\ statusPhase(store) \in TerminalPhases
        /\ store'.processingStatus # None)
           => statusPhase(store') \in TerminalPhases]_vars

\* C4. Cancellation outcome: when the panel's cancel handling has finished
\* after a successful cancel request, the store holds a status of phase error
\* whose error is 'Processing cancelled by user'.
C4_CancellationOutcome ==
    [][\A c \in cancelReqs :
          CancelResolved(c)
              => (/\ store'.processingStatus # None
                  /\ statusPhase(store') = "error"
                  /\ Val(store'.processingStatus).error = CancelledMessage)]_vars

\* startProcessing(request) as one function of the store: what the call
\* leaves in the store by the time it awaits or returns.
startProcessingCalled(s, request) ==
    IF startAccepted(s) THEN startProcessingSet(s, request) ELSE s

\* C5. Fresh job after a terminal one: in every state where the run of the
\* selected company has ended in error, startProcessing for the same ticker
\* and time range is accepted (it sends a start request) and leaves the
\* status at scraping with all counters 0 and no error.
C5_FreshJobAfterError ==
    (/\ store.processingStatus # None
     /\ statusPhase(store) = "error"
     /\ Val(store.processingStatus).ticker = store.selectedTicker)
        => (/\ startAccepted(store)
            /\ startProcessingCalled(store,
                   [ticker |-> store.selectedTicker,
                    timeRange |-> store.selectedTimeRange]).processingStatus
               = Some(InitialStatus(store.selectedTicker)))

\* C6. Query precondition: a step in which sendMessage appends messages is
\* taken only when the status in the store is complete and belongs to the
\* company in companyContext.
C6_QueryPrecondition ==
    [][\A m \in Questions :
          (CallSendMessage(m) /\ store'.messages # store.messages)
              => (/\ store.processingStatus # None
                  /\ statusPhase(store) = "complete"
                  /\ store.companyContext # None
                  /\ Val(store.processingStatus).ticker
                         = Val(store.companyContext).ticker)]_vars

\* C7. Chat is reachable only through completed processing: a step that
\* makes currentPhase 'chat' starts in currentPhase 'processing' and ends
\* with a complete status and a companyContext.
C7_ChatOnlyThroughProcessing ==
    [][(store.currentPhase # "chat" /\ store'.currentPhase = "chat")
           => (/\ store.currentPhase = "processing"
               /\ store'.processingStatus # None
               /\ statusPhase(store') = "complete"
               /\ store'.companyContext # None)]_vars

\* The service holds a complete job for (ticker, timeRange).
completeJobExists(jobs, ticker, timeRange) ==
    /\ jobs[ticker] # None
    /\ Val(jobs[ticker]).timeRange = timeRange
    /\ Val(jobs[ticker]).phase = "complete"

\* C8. Reuse of completed work: when a complete job exists for (ticker,
\* timeRange) and the store records the ticker as processed, a call
\* startProcessing(ticker, timeRange) sends no start request.
C8_ReuseOfCompletedWork ==
    [][\A t \in Tickers, r \in RequestRanges :
          (/\ isCompanyProcessed(store, t)
           /\ completeJobExists(serverJobs, t, r)
           /\ CallStartProcessing(t, r))
              => startReqs' = startReqs]_vars

\* C9. Completed jobs are retained: a ticker recorded as processed stays
\* recorded as processed after every step.
C9_ProcessedRetained ==
    [][\A t \in Tickers :
          isCompanyProcessed(store, t) => isCompanyProcessed(store', t)]_vars

\* C10. Counter invariant: every status the store holds has
\* documentsProcessed <= documentsFound and chunksVectorized <= chunksCreated.
C10_CounterInvariant ==
    store.processingStatus # None
        => (/\ Val(store.processingStatus).documentsProcessed
                   <= Val(store.processingStatus).documentsFound
            /\ Val(store.processingStatus).chunksVectorized
                   <= Val(store.processingStatus).chunksCreated)

\* A polled status with positive counters has reached the store, and a failed
\* poll has since made an error status of it, counters kept.
C10_Witness ==
    /\ store.processingStatus # None
    /\ statusPhase(store) = "error"
    /\ Val(store.processingStatus).error = FetchFailedMessage
    /\ Val(store.processingStatus).documentsProcessed = MaxDocs
    /\ Val(store.processingStatus).chunksCreated = MaxChunks

\* The query's retrieval has happened: sources and (later) citations are set.
retrieved(q) == q.at \in {"generating", "related", "returned", "raised"}

\* C11. Query isolation: whatever the shared index holds and however queries
\* interleave, the source chunks a query for a ticker retrieves, and the
\* citations built from them, come only from index entries of that ticker.
C11_QueryIsolation ==
    \A i \in DOMAIN queries :
        retrieved(queries[i])
            => (/\ \A e \in queries[i].sources : e.ticker = queries[i].ticker
                /\ \A c \in queries[i].citations :
                       c.chunk.ticker = queries[i].ticker)

\* The best match of a query for the ticker is below the threshold: no index
\* entry of the ticker reaches it.
bestMatchBelowThreshold(entries, ticker) ==
    \A e \in entries : e.ticker = ticker => e.score < ScoreThreshold

\* C12. Threshold property: no index entry with similarity below the
\* threshold is among the sources of a query, and a query whose best match is
\* below the threshold ends with no citations and an answer stating that the
\* information is insufficient.
C12_Threshold ==
    \A i \in DOMAIN queries :
        /\ retrieved(queries[i])
               => \A e \in queries[i].sources : e.score >= ScoreThreshold
        /\ (/\ queries[i].at \in {"related", "returned"}
            /\ bestMatchBelowThreshold(vectorIndex, queries[i].ticker))
               => (/\ queries[i].citations = {}
                   /\ Val(queries[i].answer).insufficient)

\* C14. Related-question generation is non-fatal: a query whose primary
\* answer and citations have been produced is waiting for the related
\* questions or has returned; it never ends by raising.
C14_RelatedQuestionsNonFatal ==
    \A i \in DOMAIN queries :
        queries[i].answer # None => queries[i].at \in {"related", "returned"}

\* The number of filings of the list on which parse_filing succeeds.
RECURSIVE parseable(_)
parseable(filings) ==
    IF filings = <<>> THEN 0
    ELSE (IF Head(filings) = "parses" THEN 1 ELSE 0) + parseable(Tail(filings))

\* C13. Per-item failures do not fail the job: process_company never ends by
\* raising after the filings were found; what it has emitted is a prefix of
\* scraping, parsing, chunking, vectorizing, complete; when it has finished,
\* documents_processed is the number of filings that parse (N - 1 for one
\* failure among N); and the companyContext the client builds from the
\* complete status has documentsAvailable = documentsProcessed.
C13_PerItemFailure ==
    /\ pipeline.at # "raised"
    /\ pipeline.emitted = SubSeq(PhaseOrder, 1, Len(pipeline.emitted))
    /\ pipeline.at = "complete"
           => (/\ pipeline.emitted = PhaseOrder
               /\ Val(pipeline.result).documents_processed
                      = parseable(pipeline.filings))
    /\ store.companyContext # None
           => (Val(store.companyContext).documentsAvailable
                   = Val(pipeline.result).documents_processed)

\* The progress the panel shows for the status in the store.
shownProgress == getPhaseProgress(Val(store.processingStatus))

\* 25 * i + 25 * (part / whole), with intra-phase progress 0 when whole = 0.
quarterPlus(i, part, whole) ==
    IF whole = 0
    THEN Frac(25 * i, 1)
    ELSE FracAdd(Frac(25 * i, 1), FracMul(Frac(25, 1), Frac(part, whole)))

\* The value stated for the phases scraping, parsing and vectorizing.
statedProgress(status) ==
    CASE status.phase = "scraping" ->
             quarterPlus(0, status.documentsProcessed, status.documentsFound)
      [] status.phase = "parsing" ->
             quarterPlus(1, status.documentsProcessed, status.documentsFound)
      [] status.phase = "vectorizing" ->
             quarterPlus(3, status.chunksVectorized, status.chunksCreated)

progressInBounds ==
    /\ FracLeq(Frac(0, 1), shownProgress)
    /\ FracLeq(shownProgress, Frac(100, 1))

\* C15 as stated. Progress is derived from counters and bounded: for every
\* status with non-negative counters getPhaseProgress is within [0, 100] and,
\* in scraping, parsing and vectorizing, equals 25 * i plus 25 times the
\* ratio of the phase's counters (0 when the denominator is 0).
C15_ProgressAsStated ==
    store.processingStatus # None
        => (/\ progressInBounds
            /\ statusPhase(store) \in {"scraping", "parsing", "vectorizing"}
                   => FracEq(shownProgress,
                             statedProgress(Val(store.processingStatus))))

\* C15, amended. getPhaseProgress is within [0, 100] for every status with
\* non-negative counters; it equals the stated value in scraping, parsing and
\* vectorizing when the stated value is at most 100, which is so whenever
\* documentsProcessed <= documentsFound and chunksVectorized <= chunksCreated;
\* when the stated value exceeds 100 the result is 100.
C15_Progress ==
    store.processingStatus # None
        => (/\ progressInBounds
            /\ statusPhase(store) \in {"scraping", "parsing", "vectorizing"}
                   => LET stated == statedProgress(Val(store.processingStatus))
                      IN /\ (/\ Val(store.processingStatus).documentsProcessed
                                    <= Val(store.processingStatus).documentsFound
                             /\ Val(store.processingStatus).chunksVectorized
                                    <= Val(store.processingStatus).chunksCreated)
                                => FracLeq(stated, Frac(100, 1))
                         /\ FracLeq(stated, Frac(100, 1))
                                => FracEq(shownProgress, stated)
                         /\ ~FracLeq(stated, Frac(100, 1))
                                => FracEq(shownProgress, Frac(100, 1)))

\* The panel shows a vectorizing status with half of the chunks written:
\* progress 87.5.
C15_Witness ==
    /\ store.processingStatus # None
    /\ statusPhase(store) = "vectorizing"
    /\ Val(store.processingStatus).chunksVectorized = 1
    /\ Val(store.processingStatus).chunksCreated = 2
    /\ FracEq(shownProgress, Frac(175, 2))

\* C16. Polling starts when a ticker is provided: the hook mounted with a
\* ticker and enabled = true starts polling and requests the status of that
\* ticker, whether the store holds no processingStatus yet or one that is not
\* terminal.
C16_PollingStartsWithTicker ==
    \A t \in Tickers :
        (store.processingStatus = None \/ statusPhase(store) \in NonTerminalPhases)
            => (/\ effectOf(t, TRUE, store.processingStatus).startsPolling
                /\ effectOf(t, TRUE, store.processingStatus).requested = {t})

\* A terminal status reported by the service has been applied in the first
\* run and is the status the store holds.
terminalResponseApplied(s, count) ==
    /\ count = 1
    /\ s.selectedTicker # ""
    /\ s.processingStatus # None
    /\ \/ Val(s.processingStatus).phase = "complete"
       \/ /\ Val(s.processingStatus).phase = "error"
          /\ Val(s.processingStatus).error \in {JobFailedMessage, JobCancelledMessage}

\* C17. Polling stops at a terminal status: while the store holds a terminal
\* status applied from a response, the hook is not polling, and no step of
\* that run sends a further status request or starts polling again; with
\* 'complete' the store is in the chat phase and the company is marked
\* processed.
C17_PollingStopsAtTerminal ==
    [][terminalResponseApplied(store, requestCount)
           => (/\ ~isPolling
               /\ statusPhase(store) = "complete"
                      => (/\ store.currentPhase = "chat"
                          /\ isCompanyProcessed(store, Val(store.processingStatus).ticker))
               /\ requestCount' = requestCount
                      => (pollCount' = pollCount /\ ~isPolling'))]_vars

\* C18. Failed poll: when a status request fails while the run is in
\* progress (the panel shows the run), the step leaves a status of phase
\* error with error 'Failed to fetch processing status' and the hook not
\* polling; and after every step, a panel showing a non-terminal status has
\* the hook polling.
C18_FailedPoll ==
    [][/\ \A p \in BagToSet(polls) :
              (panelMounted(store) /\ PollRejected(p))
                  => (/\ store'.processingStatus # None
                      /\ statusPhase(store') = "error"
                      /\ Val(store'.processingStatus).error = FetchFailedMessage
                      /\ ~isPolling')
       /\ (panelMounted(store') /\ statusPhase(store') \in NonTerminalPhases)
              => isPolling']_vars

\* A status request of the run has failed: the panel shows the error status
\* written by the catch block and the hook has stopped polling.
C18_Witness ==
    /\ panelMounted(store)
    /\ requestCount = 1
    /\ statusPhase(store) = "error"
    /\ Val(store.processingStatus).error = FetchFailedMessage
    /\ ~isPolling
    /\ polls = EmptyBag

\* C19. resetWorkflow clears all workflow state: every step that is a call
\* of resetWorkflow, from whatever state, ends with currentPhase 'input',
\* previousPhase null, selectedTicker '', selectedTimeRange 3, no
\* processingStatus, processingProgress, processingJobId or companyContext,
\* no messages, chat disabled and no workflowError; and resetWorkflow applied
\* to that store gives the same store.
C19_ResetWorkflowClears ==
    [][CallResetWorkflow
           => (/\ store'.currentPhase = "input"
               /\ store'.previousPhase = None
               /\ store'.selectedTicker = ""
               /\ store'.selectedTimeRange = 3
               /\ store'.processingStatus = None
               /\ store'.processingProgress = None
               /\ store'.processingJobId = None
               /\ store'.companyContext = None
               /\ store'.messages = <<>>
               /\ store'.chatEnabled = FALSE
               /\ store'.workflowError = None
               /\ resetWorkflow(store') = store'
               /\ resetWorkflow(resetWorkflow(store)) = resetWorkflow(store))]_vars

\* resetWorkflow has been called after a company was submitted, and nothing
\* has written to the store since.
C19_Witness ==
    /\ requestCount >= 1
    /\ store.selectedTicker = ""
    /\ store.currentPhase = "input"
    /\ store.processingStatus = None
    /\ store.processingJobId = None
    /\ store = resetWorkflow(store)

\* startProcessing(request) whose start request succeeded with jobId, no
\* other store action in between.
startProcessingSucceeded(s, request, jobId) ==
    startProcessingResolved(startProcessingCalled(s, request), jobId)

\* C20. startProcessing success: from every state in phase 'input', for
\* every request and every jobId the request returns, startProcessing ends
\* with currentPhase 'processing', previousPhase 'input', the ticker and time
\* range of the request selected, a status {ticker, scraping, counters 0},
\* no messages, no companyContext, chat disabled, no workflowError, and
\* processingJobId = jobId.
C20_StartProcessingSuccess ==
    store.currentPhase = "input"
        => \A t \in Tickers, r \in RequestRanges, jobId \in 1..MaxStarts :
               LET s2 == startProcessingSucceeded(store,
                             [ticker |-> t, timeRange |-> r], jobId)
               IN /\ s2.currentPhase = "processing"
                  /\ s2.previousPhase = Some("input")
                  /\ s2.selectedTicker = t
                  /\ s2.selectedTimeRange = r
                  /\ s2.processingStatus # None
                  /\ Val(s2.processingStatus).ticker = t
                  /\ Val(s2.processingStatus).phase = "scraping"
                  /\ Val(s2.processingStatus).documentsFound = 0
                  /\ Val(s2.processingStatus).documentsProcessed = 0
                  /\ Val(s2.processingStatus).chunksCreated = 0
                  /\ Val(s2.processingStatus).chunksVectorized = 0
                  /\ s2.messages = <<>>
                  /\ s2.companyContext = None
                  /\ s2.chatEnabled = FALSE
                  /\ s2.workflowError = None
                  /\ s2.processingJobId = Some(jobId)

\* The second start of a company has succeeded, after a first run and a
\* reset: the store is as startProcessing and its resolved request leave it.
C20_Witness ==
    /\ requestCount = 2
    /\ startReqs = {}
    /\ store.processingJobId # None
    /\ \E t \in Tickers, r \in RequestRanges :
           store = startProcessingSucceeded(resetWorkflow(store),
                       [ticker |-> t, timeRange |-> r],
                       Val(store.processingJobId))

\* What a job-fatal failure with the given message and details makes of store
\* s: s2 is the store after it.
failedFrom(s, s2, message, details) ==
    /\ IF s.processingStatus = None
       THEN s2.processingStatus = None
       ELSE /\ s2.processingStatus # None
            /\ Val(s2.processingStatus)
                   = [Val(s.processingStatus) EXCEPT !.phase = "error",
                                                     !.error = message]
            /\ Val(s2.processingStatus).ticker = Val(s.processingStatus).ticker
            /\ Val(s2.processingStatus).documentsFound
                   = Val(s.processingStatus).documentsFound
            /\ Val(s2.processingStatus).documentsProcessed
                   = Val(s.processingStatus).documentsProcessed
            /\ Val(s2.processingStatus).chunksCreated
                   = Val(s.processingStatus).chunksCreated
            /\ Val(s2.processingStatus).chunksVectorized
                   = Val(s.processingStatus).chunksVectorized
    /\ s2.workflowError # None
    /\ Val(s2.workflowError).phase = "processing"
    /\ Val(s2.workflowError).message = message
    /\ Val(s2.workflowError).details = details
    /\ Val(s2.workflowError).recoverable
    /\ s2.processingEndTime # None
    /\ s2.currentPhase = s.currentPhase
    /\ s2.selectedTicker = s.selectedTicker
    /\ s2.selectedTimeRange = s.selectedTimeRange
    /\ s2.processingJobId = s.processingJobId
    /\ s2.messages = s.messages

\* Arguments of a direct call failProcessing(error, details); details is
\* optional.
FailureMessages == {"Network error"}
FailureDetails == {"Failed to connect to SEC EDGAR", ""}

\* C21. Job-fatal failure: from every state, a failed start request and every
\* call failProcessing(error, details) leave the status with its ticker and
\* counters, phase 'error' and error = the message (null stays null),
\* workflowError {processing, message, details, recoverable}, an end time,
\* and currentPhase, selectedTicker, selectedTimeRange, processingJobId and
\* messages as they were.
C21_JobFatalFailure ==
    /\ failedFrom(store, startProcessingRejected(store),
                  StartFailedMessage, StartFailedDetails)
    /\ \A e \in FailureMessages, d \in FailureDetails :
           failedFrom(store, failProcessing(store, e, d), e, d)

\* The start request of the run has failed: the store holds the error status
\* and the workflowError the catch block of startProcessing leaves.
C21_Witness ==
    /\ requestCount = 1
    /\ startReqs = {}
    /\ store.currentPhase = "processing"
    /\ store.selectedTicker # ""
    /\ store.processingJobId = None
    /\ store.processingStatus # None
    /\ statusPhase(store) = "error"
    /\ Val(store.processingStatus).error = StartFailedMessage
    /\ store.workflowError # None
    /\ Val(store.workflowError).message = StartFailedMessage
    /\ Val(store.workflowError).details = StartFailedDetails

\* C22. Transition guard: canTransitionTo('input') is always true,
\* canTransitionTo('processing') is true exactly in phase 'input',
\* canTransitionTo('chat') exactly in phase 'processing' with a complete
\* status and a companyContext; and where canTransitionTo(p) is false,
\* setWorkflowPhase(p) without force and transitionToPhase(p) return false
\* and leave the store as it is, and startProcessing sends no request and
\* leaves the store as it is.
C22_TransitionGuard ==
    /\ canTransitionTo(store, "input")
    /\ canTransitionTo(store, "processing") <=> store.currentPhase = "input"
    /\ canTransitionTo(store, "chat")
           <=> (/\ store.currentPhase = "processing"
                /\ store.processingStatus # None
                /\ statusPhase(store) = "complete"
                /\ store.companyContext # None)
    /\ \A p \in WorkflowPhases :
           ~canTransitionTo(store, p)
               => (/\ ~setWorkflowPhaseReturns(store, p, FALSE)
                   /\ setWorkflowPhase(store, p, FALSE) = store
                   /\ ~transitionToPhaseReturns(store, p)
                   /\ transitionToPhase(store, p) = store)
    /\ ~canTransitionTo(store, "processing")
           => \A t \in Tickers, r \in RequestRanges :
                  /\ startProcessingSends(store, [ticker |-> t, timeRange |-> r]) = {}
                  /\ startProcessingCalled(store, [ticker |-> t, timeRange |-> r])
                         = store

\* transitionToPhase('chat') has passed the guard and acted: the store came
\* from phase 'processing' with a complete status and a companyContext, and
\* from 'chat' the guard now refuses both 'processing' and 'chat'.
C22_Witness ==
    /\ store.currentPhase = "chat"
    /\ store.previousPhase = Some("processing")
    /\ store.chatEnabled
    /\ store.processingStatus # None
    /\ statusPhase(store) = "complete"
    /\ store.companyContext # None
    /\ ~canTransitionTo(store, "processing")
    /\ ~canTransitionTo(store, "chat")

\* C23. Debounce: the value returned is the initial value until a timeout
\* runs; it changes only when the delay has run out since the last change of
\* the input, and then to the latest input; every change of the input leaves
\* the returned value as it is and restarts the wait at the full delay; and
\* a search is issued only with such a change of the returned value, once,
\* for the input that is then the latest.
C23_Debounce ==
    [][/\ search'.query.debounced # search.query.debounced
              => (/\ search.query.timer = Some(0)
                  /\ search'.query.debounced = search.query.value
                  /\ search'.query.value = search.query.value
                  /\ search'.query.timer = None)
       /\ search'.query.value # search.query.value
              => (/\ search'.query.debounced = search.query.debounced
                  /\ search'.query.timer = Some(SearchDelay)
                  /\ search'.issued = search.issued)
       /\ search'.issued # search.issued
              => (/\ search'.issued = Append(search.issued, search.query.value)
                  /\ search'.query.debounced = search.query.value
                  /\ search.query.timer = Some(0)
                  /\ \A i \in DOMAIN search.issued :
                         search.issued[i] # search.query.value)]_vars

\* Three characters were typed in quick succession and the wait has run out:
\* the one search issued is for the final query, none for the intermediate
\* ones.
C23_Witness ==
    /\ search.query.value = <<"A", "A", "P">>
    /\ search.query.debounced = <<"A", "A", "P">>
    /\ search.query.timer = None
    /\ search.issued = << <<"A", "A", "P">> >>

\* retryFromError() as a function of the store: whether it calls
\* startProcessing, the start requests that call sends, and the store it
\* leaves by the time it awaits or returns.
retryStartsProcessing(s) ==
    /\ retryAccepted(s)
    /\ Val(s.workflowError).phase = "processing"
    /\ s.selectedTicker # ""

retryRequest(s) == [ticker |-> s.selectedTicker, timeRange |-> s.selectedTimeRange]

retryFromErrorSends(s) ==
    IF retryStartsProcessing(s)
    THEN startProcessingSends(clearWorkflowError(s), retryRequest(s))
    ELSE {}

retryFromErrorCalled(s) ==
    IF ~retryAccepted(s) THEN s
    ELSE IF retryStartsProcessing(s)
         THEN startProcessingCalled(clearWorkflowError(s), retryRequest(s))
         ELSE clearWorkflowError(s)

\* C24. Recovery from a processing error: in every state with a recoverable
\* workflowError of phase 'processing' and a selected ticker, retryFromError
\* clears the error, sends a start request for (selectedTicker,
\* selectedTimeRange) and leaves the status at scraping with counters 0; in
\* every state with no workflowError or one that is not recoverable it sends
\* nothing and leaves the store as it is.
C24_RetryFromError ==
    /\ retryStartsProcessing(store)
           => (/\ retryFromErrorCalled(store).workflowError = None
               /\ retryFromErrorSends(store) = {retryRequest(store)}
               /\ retryFromErrorCalled(store).processingStatus
                      = Some(InitialStatus(store.selectedTicker)))
    /\ ~retryAccepted(store)
           => (/\ retryFromErrorSends(store) = {}
               /\ retryFromErrorCalled(store) = store)

\* C25. Only validated tickers are submitted: every step that calls onSubmit
\* is taken with a validation result shown that is valid, and submits the
\* ticker that result is for; a submit without a valid result sets the error
\* 'Please enter a valid company ticker' and calls onSubmit with nothing.
C25_OnlyValidatedSubmitted ==
    [][/\ form'.submitted # form.submitted
              => (/\ resultIsValid(form)
                  /\ form'.submitted
                         = form.submitted \cup {Val(form.validationResult).ticker})
       /\ (HandleSubmit /\ ~resultIsValid(form))
              => (/\ form'.error = Some(InvalidTickerMessage)
                  /\ form'.submitted = form.submitted)]_vars

\* C26. Polling rate: while a run is in progress, the step in which a status
\* response is applied to the store sends no status request; after the
\* initial fetch requests are sent by the interval only.
C26_PollingRate ==
    [][\A p \in BagToSet(polls) :
          (panelMounted(store) /\ pollingWanted(store) /\ PollResolved(p))
              => pollCount' = pollCount]_vars

\* The start request q is not the one of the current run: a newer
\* startProcessing has been called, or resetWorkflow has cleared the
\* selection since.
supersededStart(s, count, q) == q.id < count \/ s.selectedTicker = ""

\* C27. The job handle belongs to the current run: the response, success or
\* failure, of a start request that a newer startProcessing or a
\* resetWorkflow has superseded leaves processingJobId, processingStatus and
\* workflowError as they are, and a step that stores a job handle stores the
\* jobId returned for the most recent start request.
C27_JobHandleOfCurrentRun ==
    [][\A q \in startReqs :
          /\ (supersededStart(store, requestCount, q)
              /\ (StartResolved(q) \/ StartRejected(q)))
                 => (/\ store'.processingJobId = store.processingJobId
                     /\ store'.processingStatus = store.processingStatus
                     /\ store'.workflowError = store.workflowError)
          /\ (StartResolved(q) /\ store'.processingJobId # store.processingJobId)
                 => (q.id = requestCount /\ store'.processingJobId = Some(q.jobId))]_vars

\* C28. Status and chat context belong to the selected company: a non-null
\* processingStatus has ticker = selectedTicker, and a non-null
\* companyContext has ticker = selectedTicker.
C28_StatusOfSelectedCompany ==
    /\ store.processingStatus # None
          => Val(store.processingStatus).ticker = store.selectedTicker
    /\ store.companyContext # None
          => Val(store.companyContext).ticker = store.selectedTicker

\* C29. Failed cancel changes nothing: when the cancel request fails, the
\* store (processingStatus, phase, selection and error included) is left as
\* it is, polling is not stopped and no status request is withdrawn, so the
\* workflow is not reset and the run keeps being tracked.
C29_FailedCancelChangesNothing ==
    [][\A c \in cancelReqs :
          CancelRejected(c)
              => (/\ store'.processingStatus = store.processingStatus
                  /\ store'.currentPhase = store.currentPhase
                  /\ store'.selectedTicker = store.selectedTicker
                  /\ store'.workflowError = store.workflowError
                  /\ store' = store
                  /\ isPolling' = isPolling
                  /\ polls' = polls)]_vars

\* A cancel request was sent and failed: the service has cancelled the job,
\* no cancel request is in flight, and the store still tracks its only run.
C29_Witness ==
    /\ cancelReqs = {}
    /\ requestCount = 1
    /\ serverJobs["AAPL"] # None
    /\ Val(serverJobs["AAPL"]).error = JobCancelledMessage
    /\ panelMounted(store)
    /\ store.selectedTicker = "AAPL"
    /\ Val(store.processingStatus).phase \notin TerminalPhases
    /\ isPolling

=============================================================================
